---- MODULE Spec2Model ----
(***************************************************************************)
(* A model of the blueowl-ble device-control layer: the simulated          *)
(* hardware controller (internal/hardware/mock.go), the recording-archive  *)
(* index (internal/hardware/browser.go) and the GATT write handlers of the *)
(* BLE server (internal/ble).                                              *)
(*                                                                         *)
(* Strings that the code compares, sorts or tests for a suffix (tag and    *)
(* file names) are sequences of byte values, so that Go's string order and *)
(* strings.HasSuffix are computed, not assumed.  Strings that are only     *)
(* stored and passed on (wifi credentials, error texts, JSON action and    *)
(* type words) are TLA+ strings.                                           *)
(***************************************************************************)
EXTENDS Integers, Sequences, FiniteSets, TLC

VARIABLES
    isRecording,   \* MockController.isRecording
    recConfig,     \* MockController.recConfig
    wifiConfig,    \* MockController.wifiConfig
    disk,          \* the directory tree under FileBrowser.RootPath
    session,       \* history: a Start has succeeded and no Stop has succeeded since
    sessionTag,    \* history: the tag given to the Start that opened the session
    crashed,       \* the process has ended in an unrecovered panic
    recStatus,     \* value last written to the Recorder Status characteristic
    wifiStatus,    \* value last written to the Wifi Status characteristic
    battLevel,     \* value last written to the Battery Level characteristic
    diskStatus,    \* value last written to the Disk Status characteristic
    wifiTasks,     \* the goroutines started by handleWifiSetup
    browserTasks,  \* the goroutines started by handleBrowserRequest
    browserLog,    \* the frames written to the File Browser characteristic, in order,
                   \* each with the request that wrote it and the index it answers
    last,          \* history: the last write event handled and what it did
    query,         \* history: the last archive-index query and its result
    seen           \* history: the first archive-index query since the storage changed

vars == <<isRecording, recConfig, wifiConfig, disk, session, sessionTag, crashed,
          recStatus, wifiStatus, battLevel, diskStatus, wifiTasks, browserTasks,
          browserLog, last, query, seen>>

-----------------------------------------------------------------------------
(* Bounds of the model *)

\* number of distinct wall-clock readings time.Now() can give to StopRecorder
MaxClock == 1

\* number of WifiSetup writes whose connect goroutine is followed
MaxWifiTasks == 2

\* largest index asked of the archive index
MaxIndex == 3

-----------------------------------------------------------------------------
(* Names: byte strings *)

EmptyName == <<>>
\* "A", "B"
TagA == <<65>>
TagB == <<66>>
\* "Default"
DefaultTag == <<68, 101, 102, 97, 117, 108, 116>>
\* ".mp4", ".imu", ".jpg"
ExtMp4 == <<46, 109, 112, 52>>
ExtImu == <<46, 105, 109, 117>>
ExtJpg == <<46, 106, 112, 103>>
\* "vid_"
VidPrefix == <<118, 105, 100, 95>>

\* Go's string comparison a < b: bytewise lexicographic order.
LexLess(a, b) ==
    \E k \in 1..Len(b) :
        /\ k <= Len(a) + 1
        /\ \A j \in 1..(k - 1) : a[j] = b[j]
        /\ (k = Len(a) + 1 \/ a[k] < b[k])

\* strings.HasSuffix(s, suffix)
HasSuffix(s, suffix) ==
    /\ Len(s) >= Len(suffix)
    /\ SubSeq(s, Len(s) - Len(suffix) + 1, Len(s)) = suffix

\* time.Now().Format("150405") for the k-th clock reading: "00000k"
Timestamp(k) == <<48, 48, 48, 48, 48, 48 + k>>

Clock == 1..MaxClock

\* fmt.Sprintf("vid_%s", timestamp)
BaseName(ts) == VidPrefix \o ts

-----------------------------------------------------------------------------
(* The storage under RootPath.                                             *)
(*   ok     : the file system answers (FALSE: every call fails, as with a  *)
(*            permission or I/O error on the root)                         *)
(*   exists : RootPath is a directory                                      *)
(*   root   : the entries of RootPath, name -> isDir                       *)
(*   sub    : for every directory of root, its entries, name -> isDir      *)

NoEntries == [n \in {} |-> FALSE]

EmptyDisk == [ok |-> TRUE, exists |-> TRUE, root |-> NoEntries, sub |-> [n \in {} |-> NoEntries]]

\* filepath.Join(RootPath, tag) names a directory
IsDirAt(d, tag) ==
    /\ d.exists
    /\ (tag = EmptyName \/ (tag \in DOMAIN d.root /\ d.root[tag]))

\* the entries of the directory filepath.Join(RootPath, tag)
Listing(d, tag) == IF tag = EmptyName THEN d.root ELSE d.sub[tag]

RECURSIVE SortedNames(_)
SortedNames(S) ==
    IF S = {} THEN <<>>
    ELSE LET mn == CHOOSE x \in S : \A y \in S : y = x \/ LexLess(x, y)
         IN  <<mn>> \o SortedNames(S \ {mn})

\* os.ReadDir: the entries of a directory, sorted by file name
ReadDir(d, tag) ==
    IF ~d.ok THEN [err |-> "permission denied", entries |-> <<>>]
    ELSE IF ~IsDirAt(d, tag) THEN [err |-> "file does not exist", entries |-> <<>>]
    ELSE LET f  == Listing(d, tag)
             sn == SortedNames(DOMAIN f)
         IN  [err |-> "ok",
              entries |-> [i \in 1..Len(sn) |-> [name |-> sn[i], isDir |-> f[sn[i]]]]]

\* os.MkdirAll(filepath.Join(RootPath, tag), 0755)
MkdirAll(d, tag) ==
    IF ~d.ok THEN [err |-> "permission denied", disk |-> d]
    ELSE IF tag = EmptyName THEN [err |-> "ok", disk |-> [d EXCEPT !.exists = TRUE]]
    ELSE IF d.exists /\ tag \in DOMAIN d.root
         THEN IF d.root[tag] THEN [err |-> "ok", disk |-> d]
              ELSE [err |-> "not a directory", disk |-> d]
    ELSE [err |-> "ok",
          disk |-> [d EXCEPT !.exists = TRUE,
                             !.root = (tag :> TRUE) @@ d.root,
                             !.sub = (tag :> NoEntries) @@ d.sub]]

\* os.WriteFile(filepath.Join(RootPath, tag, name), ...)
WriteFile(d, tag, name) ==
    IF ~d.ok THEN [err |-> "permission denied", disk |-> d]
    ELSE IF ~IsDirAt(d, tag) THEN [err |-> "no such file or directory", disk |-> d]
    ELSE IF name \in DOMAIN Listing(d, tag) /\ Listing(d, tag)[name]
         THEN [err |-> "is a directory", disk |-> d]
    ELSE IF tag = EmptyName
         THEN [err |-> "ok", disk |-> [d EXCEPT !.root = (name :> FALSE) @@ d.root]]
         ELSE [err |-> "ok",
               disk |-> [d EXCEPT !.sub = (tag :> ((name :> FALSE) @@ d.sub[tag])) @@ d.sub]]

-----------------------------------------------------------------------------
(* The recording-archive index (FileBrowser) *)

\* a nil *TagInfo / *RecordingFileInfo
Nil == [nil |-> TRUE]

\* the comparison of sort.Slice turned round
RECURSIVE InsertByNameDesc(_, _)
InsertByNameDesc(e, s) ==
    IF s = <<>> THEN <<e>>
    ELSE IF LexLess(Head(s).name, e.name) THEN <<e>> \o s
    ELSE <<Head(s)>> \o InsertByNameDesc(e, Tail(s))

RECURSIVE InsertByName(_, _)
InsertByName(e, s) ==
    IF s = <<>> THEN <<e>>
    ELSE IF LexLess(e.name, Head(s).name) THEN <<e>> \o s
    ELSE <<Head(s)>> \o InsertByName(e, Tail(s))

\* sort.Slice(x, func(i, j) bool { return x[i].Name() < x[j].Name() })
RECURSIVE SortSlice(_)
SortSlice(s) ==
    IF s = <<>> THEN <<>> ELSE InsertByName(Head(s), SortSlice(Tail(s)))

IsDirEntry(e) == e.isDir

\* the filter of getSortedFiles and of the count in GetTagInfoByIndex
IsRecordingEntry(e) == ~e.isDir /\ HasSuffix(e.name, ExtMp4)

getSortedDirs(d) ==
    LET rd == ReadDir(d, EmptyName)
    IN  IF rd.err /= "ok" THEN [err |-> rd.err, dirs |-> <<>>]
        ELSE [err |-> "ok", dirs |-> SortSlice(SelectSeq(rd.entries, IsDirEntry))]

\* the listing filtered by suffix alone, a folder named like a recording included
getSortedFilesOfAnyKind(d, tag) ==
    LET rd == ReadDir(d, tag)
        NamedMp4(e) == HasSuffix(e.name, ExtMp4)
    IN  IF rd.err /= "ok" THEN [err |-> rd.err, files |-> <<>>]
        ELSE [err |-> "ok", files |-> SortSlice(SelectSeq(rd.entries, NamedMp4))]

getSortedFiles(d, tag) ==
    LET rd == ReadDir(d, tag)
    IN  IF rd.err /= "ok" THEN [err |-> rd.err, files |-> <<>>]
        ELSE [err |-> "ok", files |-> SortSlice(SelectSeq(rd.entries, IsRecordingEntry))]

\* returns the count, the error and the storage (a missing root is created)
GetNumOfTags(d) ==
    LET rd == ReadDir(d, EmptyName)
    IN  IF rd.err = "file does not exist"
        THEN LET mk == MkdirAll(d, EmptyName)
             IN  [count |-> 0, err |-> mk.err, disk |-> mk.disk]
        ELSE IF rd.err /= "ok" THEN [count |-> 0, err |-> rd.err, disk |-> d]
        ELSE [count |-> Len(SelectSeq(rd.entries, IsDirEntry)), err |-> "ok", disk |-> d]

\* an index past the end answered with the last tag instead of an error
GetTagInfoByIndexClamped(d, idx) ==
    LET sd == getSortedDirs(d)
    IN  IF sd.err /= "ok" THEN [err |-> sd.err, info |-> Nil]
        ELSE IF Len(sd.dirs) = 0 THEN [err |-> "tag index out of bounds", info |-> Nil]
        ELSE LET at      == IF idx >= Len(sd.dirs) THEN Len(sd.dirs) ELSE idx + 1
                 tagName == sd.dirs[at].name
                 files   == ReadDir(d, tagName)
             IN  IF files.err /= "ok" THEN [err |-> files.err, info |-> Nil]
                 ELSE [err |-> "ok",
                       info |-> [nil |-> FALSE,
                                 Name |-> tagName,
                                 NumOfRecordings |->
                                     Len(SelectSeq(files.entries, IsRecordingEntry))]]

GetTagInfoByIndex(d, idx) ==
    LET sd == getSortedDirs(d)
    IN  IF sd.err /= "ok" THEN [err |-> sd.err, info |-> Nil]
        ELSE IF idx >= Len(sd.dirs) THEN [err |-> "tag index out of bounds", info |-> Nil]
        ELSE LET tagName == sd.dirs[idx + 1].name
                 files   == ReadDir(d, tagName)
             IN  IF files.err /= "ok" THEN [err |-> files.err, info |-> Nil]
                 ELSE [err |-> "ok",
                       info |-> [nil |-> FALSE,
                                 Name |-> tagName,
                                 NumOfRecordings |->
                                     Len(SelectSeq(files.entries, IsRecordingEntry))]]

GetRecordingDetails(d, tag, fileIndex) ==
    LET sf == getSortedFiles(d, tag)
    IN  IF sf.err /= "ok" THEN [err |-> "tag not found or empty", info |-> Nil]
        ELSE IF fileIndex >= Len(sf.files)
             THEN [err |-> "files index out of bounds", info |-> Nil]
        ELSE [err |-> "ok",
              info |-> [nil |-> FALSE, FileName |-> sf.files[fileIndex + 1].name]]

-----------------------------------------------------------------------------
(* The simulated controller (MockController).  Each operation runs under   *)
(* m.mu and is one atomic step; it returns the new fields and its error    *)
(* ("ok" for nil).                                                         *)

\* NewController: the configuration after construction
DefaultRecConfig == [FPS |-> 30, Bitrate |-> 5000000, ChunkSecs |-> 300, FilenameTag |-> EmptyName]

DefaultWifiConfig == [SSID |-> "", Password |-> ""]

SetupWifi(wifi, ssid, pwd) == [wifiConfig |-> [SSID |-> ssid, Password |-> pwd], err |-> "ok"]

\* after the simulated delay: succeeds iff an SSID is stored
ConnectToWifi(wifi) ==
    IF wifi.SSID = "" THEN "no wifi credentials configured" ELSE "ok"

GetWifiDetails(wifi) == [SSID |-> wifi.SSID, Password |-> wifi.Password]

SetupRecorder(rec, cfg, params) ==
    [isRecording |-> rec, recConfig |-> params, err |-> "ok"]

\* StartRecorder without its isRecording check
StartRecorderUnguarded(rec, cfg, d, folderTag) ==
    LET mk == MkdirAll(d, folderTag)
    IN  [isRecording |-> TRUE,
         recConfig |-> [cfg EXCEPT !.FilenameTag = folderTag],
         disk |-> mk.disk,
         err |-> mk.err]

StartRecorder(rec, cfg, d, folderTag) ==
    IF rec
    THEN [isRecording |-> rec, recConfig |-> cfg, disk |-> d, err |-> "already recording"]
    ELSE LET mk == MkdirAll(d, folderTag)
         IN  [isRecording |-> TRUE,
              recConfig |-> [cfg EXCEPT !.FilenameTag = folderTag],
              disk |-> mk.disk,
              err |-> mk.err]

\* StopRecorder that leaves the tag in the configuration
StopRecorderKeepingTag(rec, cfg, d, ts) ==
    IF ~rec
    THEN [isRecording |-> rec, recConfig |-> cfg, disk |-> d, err |-> "not recording"]
    ELSE LET tag   == cfg.FilenameTag
             base  == BaseName(ts)
             video == WriteFile(d, tag, base \o ExtMp4)
             imu   == WriteFile(video.disk, tag, base \o ExtImu)
             thumb == WriteFile(imu.disk, tag, base \o ExtJpg)
         IN  IF video.err /= "ok"
             THEN [isRecording |-> rec, recConfig |-> cfg, disk |-> d, err |-> video.err]
             ELSE [isRecording |-> FALSE, recConfig |-> cfg, disk |-> thumb.disk,
                   err |-> "ok"]

StopRecorder(rec, cfg, d, ts) ==
    IF ~rec
    THEN [isRecording |-> rec, recConfig |-> cfg, disk |-> d, err |-> "not recording"]
    ELSE LET tag   == cfg.FilenameTag
             base  == BaseName(ts)
             video == WriteFile(d, tag, base \o ExtMp4)
             imu   == WriteFile(video.disk, tag, base \o ExtImu)
             thumb == WriteFile(imu.disk, tag, base \o ExtJpg)
         IN  IF video.err /= "ok"
             THEN [isRecording |-> rec, recConfig |-> cfg, disk |-> d, err |-> video.err]
             ELSE [isRecording |-> FALSE,
                   recConfig |-> [cfg EXCEPT !.FilenameTag = EmptyName],
                   disk |-> thumb.disk,
                   err |-> "ok"]

GetRecorderInfo(cfg) == cfg

-----------------------------------------------------------------------------
(* Write payloads.  A payload is a JSON object, given by the fields it     *)
(* carries, or bytes json.Unmarshal rejects.  Decoding leaves the zero     *)
(* value in every field the object does not carry.                         *)

NotJSON == [undecodable |-> TRUE]

Decodes(value) == value /= NotJSON

Field(obj, key, zero) == IF key \in DOMAIN obj THEN obj[key] ELSE zero

NoFields == [k \in {} |-> 0]

\* json.Unmarshal into hardware.RecorderParameters
DecodeRecorderParameters(obj) ==
    [FPS         |-> Field(obj, "fps", 0),
     Bitrate     |-> Field(obj, "bitrate", 0),
     ChunkSecs   |-> Field(obj, "chunk_secs", 0),
     FilenameTag |-> Field(obj, "filename_tag", EmptyName)]

\* json.Unmarshal into RecCmd
DecodeRecCmd(value) ==
    [Action |-> Field(value, "action", ""),
     Tag    |-> Field(value, "tag", EmptyName),
     Config |-> DecodeRecorderParameters(Field(value, "config", NoFields))]

\* json.Unmarshal into hardware.WifiParameters
DecodeWifiParameters(value) ==
    [SSID     |-> Field(value, "ssid", ""),
     Password |-> Field(value, "password", "")]

ConfigObjects ==
    { [fps |-> 60, bitrate |-> 8000000, chunk_secs |-> 60],
      [fps |-> 60, bitrate |-> 8000000, chunk_secs |-> 60, filename_tag |-> TagA] }

\* the RecControl writes the model sends
RecPayloads ==
    {NotJSON, NoFields}
    \cup { [action |-> a] : a \in {"start", "stop", "config", "reboot"} }
    \cup { [action |-> "start", tag |-> t] : t \in {EmptyName, TagA} }
    \cup { [action |-> "config", config |-> c] : c \in ConfigObjects }

\* the WifiSetup writes the model sends
WifiPayloads ==
    {NotJSON, NoFields, [ssid |-> "home", password |-> "secret"],
     [ssid |-> "cafe", password |-> "guest"]}

-----------------------------------------------------------------------------
(* Status pushes *)

NoValue == [unset |-> TRUE]

\* the RecStatusPayload notifyRecStatus writes
RecStatusPayload(cfg) ==
    LET info == GetRecorderInfo(cfg)
    IN  [is_recording |-> info.FilenameTag /= EmptyName,
         tag          |-> info.FilenameTag,
         fps          |-> info.FPS,
         bitrate      |-> info.Bitrate]

\* the WifiStatusPayload notifyWifiStatus writes
WifiStatusPayload(wifi) ==
    LET params == GetWifiDetails(wifi)
    IN  [ssid |-> params.SSID, connected |-> params.SSID /= ""]

\* GetBatteryStatus().Percentage and GetDiskStatus() of the simulated hardware
BatteryPercentage == 88

DiskStatusPayload == [total_mb |-> 64000, used_mb |-> 12500, free_mb |-> 51500]

\* `last` when the latest step handled no write event.  Otherwise: the attribute
\* written, whether the payload decoded, the decoded RecCmd, the controller's
\* error, the number of status pushes the handler made, whether the step
\* before was a Start that succeeded, and the decoded wifi credentials.
NoEvent == [attr |-> "none", decoded |-> FALSE, cmd |-> DecodeRecCmd(NoFields), err |-> "",
            pushes |-> 0, justStarted |-> FALSE, creds |-> DecodeWifiParameters(NoFields)]

StartSucceeded(ev) == ev.attr = "rec" /\ ev.decoded /\ ev.cmd.Action = "start" /\ ev.err = "ok"

NoQuery == [op |-> "none"]

-----------------------------------------------------------------------------
(* The state after NewController, NewServer and Server.Start *)

InitWith(d) ==
    /\ isRecording = FALSE
    /\ recConfig = DefaultRecConfig
    /\ wifiConfig = DefaultWifiConfig
    /\ disk = d
    /\ session = FALSE
    /\ sessionTag = EmptyName
    /\ crashed = FALSE
    /\ recStatus = NoValue
    /\ wifiStatus = NoValue
    /\ battLevel = 0
    /\ diskStatus = NoValue
    /\ wifiTasks = <<>>
    /\ browserTasks = <<>>
    /\ browserLog = <<>>
    /\ last = NoEvent
    /\ query = NoQuery
    /\ seen = NoQuery

\* NewController has just created an empty recordings root
Init == InitWith(EmptyDisk)

-----------------------------------------------------------------------------
(* Write events *)

\* the tag handleRecorderCommand passes to StartRecorder
StartTag(cmd) == IF cmd.Tag = EmptyName THEN DefaultTag ELSE cmd.Tag

\* the switch of handleRecorderCommand
RecDispatch(cmd, ts) ==
    CASE cmd.Action = "start" ->
            StartRecorder(isRecording, recConfig, disk,
                          IF cmd.Tag = EmptyName THEN DefaultTag ELSE cmd.Tag)
      [] cmd.Action = "stop" ->
            StopRecorder(isRecording, recConfig, disk, Timestamp(ts))
      [] cmd.Action = "config" ->
            [disk |-> disk] @@ SetupRecorder(isRecording, recConfig, cmd.Config)
      [] OTHER ->
            [isRecording |-> isRecording, recConfig |-> recConfig, disk |-> disk,
             err |-> "ignored"]

\* handleRecorderCommand pushing the status only after an action that succeeded
HandleRecorderCommandPushingOnSuccess(offset, value, ts) ==
    /\ ~crashed
    /\ IF offset /= 0 \/ ~Decodes(value)
       THEN /\ last' = [NoEvent EXCEPT !.attr = "rec"]
            /\ UNCHANGED <<query, seen, browserTasks, browserLog, crashed>>
            /\ UNCHANGED <<isRecording, recConfig, wifiConfig, disk, session, sessionTag, recStatus,
                           wifiStatus, battLevel, diskStatus, wifiTasks>>
       ELSE LET cmd == DecodeRecCmd(value)
                r   == RecDispatch(cmd, ts)
                pushed == r.err = "ok"
            IN  /\ isRecording' = r.isRecording
                /\ recConfig' = r.recConfig
                /\ disk' = r.disk
                /\ session' = IF cmd.Action = "start" /\ r.err = "ok" THEN TRUE
                              ELSE IF cmd.Action = "stop" /\ r.err = "ok" THEN FALSE
                              ELSE session
                /\ sessionTag' = IF cmd.Action = "start" /\ r.err = "ok" THEN StartTag(cmd)
                                 ELSE IF cmd.Action = "stop" /\ r.err = "ok" THEN EmptyName
                                 ELSE sessionTag
                /\ recStatus' = IF pushed THEN RecStatusPayload(r.recConfig) ELSE recStatus
                /\ last' = [attr |-> "rec", decoded |-> TRUE, cmd |-> cmd, err |-> r.err,
                            pushes |-> IF pushed THEN 1 ELSE 0,
                            justStarted |-> StartSucceeded(last), creds |-> NoEvent.creds]
                /\ UNCHANGED <<query, seen, browserTasks, browserLog, crashed>>
                /\ UNCHANGED <<wifiConfig, wifiStatus, battLevel, diskStatus, wifiTasks>>

\* a write to Recorder Control: handleRecorderCommand(client, offset, value)
HandleRecorderCommand(offset, value, ts) ==
    /\ ~crashed
    /\ IF offset /= 0 \/ ~Decodes(value)
       THEN /\ last' = [NoEvent EXCEPT !.attr = "rec"]
            /\ UNCHANGED <<query, seen, browserTasks, browserLog, crashed>>
            /\ UNCHANGED <<isRecording, recConfig, wifiConfig, disk, session, sessionTag, recStatus,
                           wifiStatus, battLevel, diskStatus, wifiTasks>>
       ELSE LET cmd == DecodeRecCmd(value)
                r   == RecDispatch(cmd, ts)
            IN  /\ isRecording' = r.isRecording
                /\ recConfig' = r.recConfig
                /\ disk' = r.disk
                /\ session' = IF cmd.Action = "start" /\ r.err = "ok" THEN TRUE
                              ELSE IF cmd.Action = "stop" /\ r.err = "ok" THEN FALSE
                              ELSE session
                /\ sessionTag' = IF cmd.Action = "start" /\ r.err = "ok" THEN StartTag(cmd)
                                 ELSE IF cmd.Action = "stop" /\ r.err = "ok" THEN EmptyName
                                 ELSE sessionTag
                /\ recStatus' = RecStatusPayload(r.recConfig)
                /\ last' = [attr |-> "rec", decoded |-> TRUE, cmd |-> cmd, err |-> r.err,
                            pushes |-> 1, justStarted |-> StartSucceeded(last), creds |-> NoEvent.creds]
                /\ UNCHANGED <<query, seen, browserTasks, browserLog, crashed>>
                /\ UNCHANGED <<wifiConfig, wifiStatus, battLevel, diskStatus, wifiTasks>>

\* handleWifiSetup going on after a decoding error, with the zero credentials
HandleWifiSetupIgnoringError(value) ==
    /\ ~crashed
    /\ LET creds == DecodeWifiParameters(value)
           r     == SetupWifi(wifiConfig, creds.SSID, creds.Password)
       IN  /\ Len(wifiTasks) < MaxWifiTasks
           /\ wifiConfig' = r.wifiConfig
           /\ wifiTasks' = Append(wifiTasks, [pc |-> "connect", ssid |-> "", err |-> "", pushes |-> 0])
           /\ last' = [NoEvent EXCEPT !.attr = "wifi", !.decoded = Decodes(value), !.err = r.err,
                                   !.creds = creds]
           /\ UNCHANGED <<query, seen, browserTasks, browserLog, crashed>>
           /\ UNCHANGED <<isRecording, recConfig, disk, session, sessionTag, recStatus, wifiStatus,
                          battLevel, diskStatus>>

\* a write to Wifi Setup: handleWifiSetup(client, offset, value)
HandleWifiSetup(value) ==
    /\ ~crashed
    /\ IF ~Decodes(value)
       THEN /\ last' = [NoEvent EXCEPT !.attr = "wifi"]
            /\ UNCHANGED <<query, seen, browserTasks, browserLog, crashed>>
            /\ UNCHANGED <<isRecording, recConfig, wifiConfig, disk, session, sessionTag, recStatus,
                           wifiStatus, battLevel, diskStatus, wifiTasks>>
       ELSE LET creds == DecodeWifiParameters(value)
                r     == SetupWifi(wifiConfig, creds.SSID, creds.Password)
            IN  /\ Len(wifiTasks) < MaxWifiTasks
                /\ wifiConfig' = r.wifiConfig
                /\ wifiTasks' = Append(wifiTasks, [pc |-> "connect", ssid |-> "", err |-> "", pushes |-> 0])
                /\ last' = [NoEvent EXCEPT !.attr = "wifi", !.decoded = TRUE, !.err = r.err,
                                           !.creds = creds]
                /\ UNCHANGED <<query, seen, browserTasks, browserLog, crashed>>
                /\ UNCHANGED <<isRecording, recConfig, disk, session, sessionTag, recStatus, wifiStatus,
                               battLevel, diskStatus>>

\* the goroutine waiting until credentials with an SSID are stored
WifiConnectAwaitingCredentials(t) ==
    /\ ~crashed
    /\ wifiTasks[t].pc = "connect"
    /\ wifiConfig.SSID /= ""
    /\ wifiTasks' = [wifiTasks EXCEPT ![t] = [@ EXCEPT !.pc = "notify",
                                                        !.ssid = wifiConfig.SSID,
                                                        !.err = ConnectToWifi(wifiConfig)]]
    /\ last' = NoEvent
    /\ UNCHANGED <<query, seen, browserTasks, browserLog, crashed>>
    /\ UNCHANGED <<isRecording, recConfig, wifiConfig, disk, session, sessionTag, recStatus,
                   wifiStatus, battLevel, diskStatus>>

\* the goroutine of handleWifiSetup, first half: s.HW.ConnectToWifi()
WifiConnect(t) ==
    /\ ~crashed
    /\ wifiTasks[t].pc = "connect"
    /\ wifiTasks' = [wifiTasks EXCEPT ![t] = [@ EXCEPT !.pc = "notify",
                                                        !.ssid = wifiConfig.SSID,
                                                        !.err = ConnectToWifi(wifiConfig)]]
    /\ last' = NoEvent
    /\ UNCHANGED <<query, seen, browserTasks, browserLog, crashed>>
    /\ UNCHANGED <<isRecording, recConfig, wifiConfig, disk, session, sessionTag, recStatus,
                   wifiStatus, battLevel, diskStatus>>

\* the goroutine pushing the status only when the connection was made
WifiNotifyOnSuccess(t) ==
    /\ ~crashed
    /\ wifiTasks[t].pc = "notify"
    /\ wifiStatus' = IF wifiTasks[t].err = "ok" THEN WifiStatusPayload(wifiConfig) ELSE wifiStatus
    /\ wifiTasks' = [wifiTasks EXCEPT ![t] =
           [@ EXCEPT !.pc = "done", !.pushes = IF wifiTasks[t].err = "ok" THEN @ + 1 ELSE @]]
    /\ last' = NoEvent
    /\ UNCHANGED <<query, seen, browserTasks, browserLog, crashed>>
    /\ UNCHANGED <<isRecording, recConfig, wifiConfig, disk, session, sessionTag, recStatus,
                   battLevel, diskStatus>>

\* the goroutine of handleWifiSetup, second half: s.notifyWifiStatus()
WifiNotify(t) ==
    /\ ~crashed
    /\ wifiTasks[t].pc = "notify"
    /\ wifiStatus' = WifiStatusPayload(wifiConfig)
    /\ wifiTasks' = [wifiTasks EXCEPT ![t] = [@ EXCEPT !.pc = "done", !.pushes = @ + 1]]
    /\ last' = NoEvent
    /\ UNCHANGED <<query, seen, browserTasks, browserLog, crashed>>
    /\ UNCHANGED <<isRecording, recConfig, wifiConfig, disk, session, sessionTag, recStatus,
                   battLevel, diskStatus>>

\* one round of the background ticker of addBatteryService
Tick ==
    /\ ~crashed
    /\ battLevel' = BatteryPercentage
    /\ diskStatus' = DiskStatusPayload
    /\ wifiStatus' = WifiStatusPayload(wifiConfig)
    /\ last' = NoEvent
    /\ UNCHANGED <<query, seen, browserTasks, browserLog, crashed>>
    /\ UNCHANGED <<isRecording, recConfig, wifiConfig, disk, session, sessionTag, recStatus, wifiTasks>>

\* GetWifiDetails of the Controller interface returns (*WifiParameters, error):
\* an implementation whose query fails returns no parameters and an error
FailedWifiDetails == [params |-> Nil, err |-> "wifi details unavailable"]

\* notifyWifiStatus: params, _ := s.HW.GetWifiDetails(), then params.SSID is
\* read whatever the error was; reading through a nil pointer panics, and
\* nothing recovers it
notifyWifiStatus(details) ==
    IF details.params = Nil
    THEN [panic |-> TRUE, payload |-> NoValue]
    ELSE [panic |-> FALSE,
          payload |-> [ssid |-> details.params.SSID,
                       connected |-> details.params.SSID /= ""]]

\* the second half of the goroutine of handleWifiSetup when the controller's
\* GetWifiDetails fails
WifiNotifyOnError(t) ==
    LET n == notifyWifiStatus(FailedWifiDetails)
    IN  /\ ~crashed
        /\ wifiTasks[t].pc = "notify"
        /\ crashed' = n.panic
        /\ wifiStatus' = IF n.panic THEN wifiStatus ELSE n.payload
        /\ wifiTasks' = IF n.panic THEN wifiTasks
                        ELSE [wifiTasks EXCEPT ![t] = [@ EXCEPT !.pc = "done", !.pushes = @ + 1]]
        /\ last' = NoEvent
        /\ UNCHANGED <<query, seen, browserTasks, browserLog>>
        /\ UNCHANGED <<isRecording, recConfig, wifiConfig, disk, session, sessionTag, recStatus,
                       battLevel, diskStatus>>

\* one round of the ticker when the controller's GetWifiDetails fails: the
\* battery and disk pushes are made before notifyWifiStatus is called
TickOnError ==
    LET n == notifyWifiStatus(FailedWifiDetails)
    IN  /\ ~crashed
        /\ battLevel' = BatteryPercentage
        /\ diskStatus' = DiskStatusPayload
        /\ crashed' = n.panic
        /\ wifiStatus' = IF n.panic THEN wifiStatus ELSE n.payload
        /\ last' = NoEvent
        /\ UNCHANGED <<query, seen, browserTasks, browserLog>>
        /\ UNCHANGED <<isRecording, recConfig, wifiConfig, disk, session, sessionTag, recStatus,
                       wifiTasks>>

-----------------------------------------------------------------------------
(* The environment of the storage *)

\* the storage starts failing (permissions revoked, medium gone) or recovers
StorageFlip ==
    /\ disk' = [disk EXCEPT !.ok = ~@]
    /\ last' = NoEvent
    /\ UNCHANGED <<query, seen, browserTasks, browserLog, crashed>>
    /\ UNCHANGED <<isRecording, recConfig, wifiConfig, session, sessionTag, recStatus, wifiStatus,
                   battLevel, diskStatus, wifiTasks>>

\* `make clean`: rm -rf of the recordings root
CleanRoot ==
    /\ disk.exists
    /\ disk' = [disk EXCEPT !.exists = FALSE, !.root = NoEntries,
                            !.sub = [n \in {} |-> NoEntries]]
    /\ last' = NoEvent
    /\ UNCHANGED <<query, seen, browserTasks, browserLog, crashed>>
    /\ UNCHANGED <<isRecording, recConfig, wifiConfig, session, sessionTag, recStatus, wifiStatus,
                   battLevel, diskStatus, wifiTasks>>

\* the writes to Recorder Control the model sends: every payload at offset 0,
\* and one continuation write (offset 1)
RecWrites ==
    { [offset |-> 0, value |-> v] : v \in RecPayloads }
    \cup { [offset |-> 1, value |-> [action |-> "start"]] }

\* the clock readings that matter to a write: only "stop" reads the clock
ClockOf(w) ==
    IF Decodes(w.value) /\ DecodeRecCmd(w.value).Action = "stop" THEN Clock ELSE {1}

\* the recorder: writes to Recorder Control, over a storage that may fail
NextRecorder ==
    \/ \E w \in RecWrites : \E ts \in ClockOf(w) :
          HandleRecorderCommand(w.offset, w.value, ts)
    \/ StorageFlip
    \/ CleanRoot

\* wifi: writes to Wifi Setup, their connect goroutines and the ticker
NextWifi ==
    \/ \E value \in WifiPayloads : HandleWifiSetup(value)
    \/ \E t \in DOMAIN wifiTasks : WifiConnect(t)
    \/ \E t \in DOMAIN wifiTasks : WifiNotify(t)
    \/ Tick

SpecRecorder == Init /\ [][NextRecorder]_vars

SpecWifi == Init /\ [][NextWifi]_vars

\* wifi over any implementation of the Controller interface: GetWifiDetails
\* answers as MockController does, or fails
NextAnyController ==
    \/ NextWifi
    \/ \E t \in DOMAIN wifiTasks : WifiNotifyOnError(t)
    \/ TickOnError

SpecAnyController == Init /\ [][NextAnyController]_vars

-----------------------------------------------------------------------------
(* The archive index on its own: the storage is drawn from a bounded set   *)
(* of directory trees and the three queries of the Controller interface    *)
(* are applied to it.                                                      *)

\* "a.imu", "a.mp4", "b.mp4"
FileAImu == <<97>> \o ExtImu
FileAMp4 == <<97>> \o ExtMp4
FileBMp4 == <<98>> \o ExtMp4

\* what a tag folder may hold: plain files, and b.mp4 possibly a directory
SubListings ==
    { f \in UNION { [S -> BOOLEAN] : S \in SUBSET {FileAImu, FileAMp4, FileBMp4} } :
        \A n \in DOMAIN f : f[n] => n = FileBMp4 }

\* what the root may hold: A and B, each a folder or a plain file
RootListings == UNION { [S -> BOOLEAN] : S \in SUBSET {TagA, TagB} }

ArchiveDisks ==
    { [ok |-> o, exists |-> TRUE, root |-> r, sub |-> sb] :
        o \in BOOLEAN,
        r \in RootListings,
        sb \in UNION { [ {n \in DOMAIN rr : rr[n]} -> SubListings ] : rr \in RootListings } }

\* the trees whose sub-listings belong to their own folders, and a missing root
WellFormedDisks ==
    { d \in ArchiveDisks : DOMAIN d.sub = {n \in DOMAIN d.root : d.root[n]} }
    \cup { [EmptyDisk EXCEPT !.exists = FALSE, !.ok = o] : o \in BOOLEAN }

InitIndex == \E d \in WellFormedDisks : InitWith(d)

Remember(q) == IF seen = NoQuery THEN q ELSE seen

IndexFrame == <<isRecording, recConfig, wifiConfig, session, sessionTag, crashed, recStatus, wifiStatus,
                battLevel, diskStatus, wifiTasks, browserTasks, browserLog, last>>

\* CountTags
QueryNumOfTags ==
    LET r == GetNumOfTags(disk)
    IN  /\ disk' = r.disk
        /\ query' = [op |-> "count", count |-> r.count, err |-> r.err]
        /\ seen' = seen
        /\ UNCHANGED IndexFrame

\* TagAt(idx); it keeps the count of a CountTags made just before it
QueryTagInfo(idx) ==
    LET r == GetTagInfoByIndex(disk, idx)
        q == [op |-> "tag", idx |-> idx, err |-> r.err, info |-> r.info,
              repeat |-> seen /= NoQuery,
              counted |-> query.op = "count" /\ query.err = "ok",
              count |-> IF query.op = "count" THEN query.count ELSE 0]
    IN  /\ query' = q
        /\ seen' = Remember(q)
        /\ UNCHANGED disk
        /\ UNCHANGED IndexFrame

\* RecordingAt(tag, idx)
QueryRecording(tag, idx) ==
    LET r == GetRecordingDetails(disk, tag, idx)
        q == [op |-> "file", tag |-> tag, idx |-> idx, err |-> r.err, info |-> r.info,
              repeat |-> seen /= NoQuery]
    IN  /\ query' = q
        /\ seen' = Remember(q)
        /\ UNCHANGED disk
        /\ UNCHANGED IndexFrame

NextIndex ==
    \/ QueryNumOfTags
    \/ \E idx \in 0..MaxIndex : QueryTagInfo(idx)
    \/ \E tag \in {TagA, TagB}, idx \in 0..MaxIndex : QueryRecording(tag, idx)

SpecIndex == InitIndex /\ [][NextIndex]_vars

-----------------------------------------------------------------------------
(* The browser streaming protocol: handleBrowserRequest and its goroutine. *)
(* Every write to the characteristic is one step of the goroutine; the     *)
(* controller call that produces an item is made in the step that writes   *)
(* it.                                                                     *)

\* number of File Browser requests a peer sends one after the other
MaxBrowserReqs == 1

\* number of File Browser requests a peer sends without waiting
MaxStreams == 2

\* json.Unmarshal into BrowserRequest
DecodeBrowserRequest(value) ==
    [Type      |-> Field(value, "type", ""),
     TagIndex  |-> Field(value, "tag_index", 0),
     FileIndex |-> Field(value, "file_index", 0)]

\* the File Browser writes the model sends
BrowserPayloads ==
    {NotJSON, NoFields, [type |-> "tags"], [type |-> "files"], [type |-> "thumbs"]}
    \cup { [type |-> "files", tag_index |-> 1] }

\* eos := []byte("{}")
Sentinel == [json |-> "{}"]

ErrorFrame == [json |-> "{\"error\": \"unknown_type\"}"]

\* json.Marshal of a *TagInfo or *RecordingFileInfo: "null" for a nil pointer
Marshal(info) == IF info = Nil THEN [json |-> "null"] ELSE [json |-> "object", value |-> info]

\* the frames request t has written, in order
FramesOf(t) ==
    LET Mine(e) == e.req = t
        mine    == SelectSeq(browserLog, Mine)
    IN  [k \in 1..Len(mine) |-> mine[k].frame]

\* the names of the tag folders, in order, read off the storage itself
TagFolders(d) == SortedNames({n \in DOMAIN d.root : d.root[n]})

\* the storage holds nothing a request could enumerate: no tag folder, or no
\* tag folder at the index, or no recording in that folder
NothingToEnumerate(d, req) ==
    \/ ~d.ok
    \/ ~d.exists
    \/ req.Type = "tags" /\ TagFolders(d) = <<>>
    \/ req.Type = "files" /\ req.TagIndex >= Len(TagFolders(d))
    \/ /\ req.Type = "files" /\ req.TagIndex < Len(TagFolders(d))
       /\ \A n \in DOMAIN d.sub[TagFolders(d)[req.TagIndex + 1]] :
              d.sub[TagFolders(d)[req.TagIndex + 1]][n] \/ ~HasSuffix(n, ExtMp4)

BrowserFrame == <<isRecording, recConfig, wifiConfig, session, sessionTag, crashed, recStatus, wifiStatus,
                  battLevel, diskStatus, wifiTasks, query, seen>>

\* handleBrowserRequest answering a payload it cannot decode with the sentinel
HandleBrowserRequestAnsweringMalformed(value) ==
    /\ ~crashed
    /\ IF ~Decodes(value)
       THEN /\ last' = [NoEvent EXCEPT !.attr = "browser"]
            /\ browserLog' = Append(browserLog, [req |-> 0, frame |-> Sentinel, index |-> -1])
            /\ UNCHANGED <<disk, browserTasks>>
            /\ UNCHANGED BrowserFrame
       ELSE LET req == DecodeBrowserRequest(value)
            IN  /\ browserTasks' = Append(browserTasks,
                       [req |-> req, pc |-> "start", count |-> 0, i |-> 0, tag |-> EmptyName,
                        nothing |-> FALSE])
                /\ last' = [NoEvent EXCEPT !.attr = "browser", !.decoded = TRUE]
                /\ UNCHANGED <<disk, browserLog>>
                /\ UNCHANGED BrowserFrame

\* handleBrowserRequest with an in-flight guard: a request that arrives while
\* another is streaming is dropped
HandleBrowserRequestWhenIdle(value) ==
    /\ ~crashed
    /\ IF ~Decodes(value)
       THEN /\ last' = [NoEvent EXCEPT !.attr = "browser"]
            /\ UNCHANGED <<disk, browserTasks, browserLog>>
            /\ UNCHANGED BrowserFrame
       ELSE LET req == DecodeBrowserRequest(value)
                busy == \E t \in DOMAIN browserTasks : browserTasks[t].pc /= "done"
            IN  /\ browserTasks' = IF busy THEN browserTasks
                                   ELSE Append(browserTasks,
                                            [req |-> req, pc |-> "start", count |-> 0, i |-> 0,
                                             tag |-> EmptyName, nothing |-> FALSE])
                /\ last' = [NoEvent EXCEPT !.attr = "browser", !.decoded = TRUE]
                /\ UNCHANGED <<disk, browserLog>>
                /\ UNCHANGED BrowserFrame

\* a write to File Browser: handleBrowserRequest(client, offset, value)
HandleBrowserRequest(value) ==
    /\ ~crashed
    /\ IF ~Decodes(value)
       THEN /\ last' = [NoEvent EXCEPT !.attr = "browser"]
            /\ UNCHANGED <<disk, browserTasks, browserLog>>
            /\ UNCHANGED BrowserFrame
       ELSE LET req == DecodeBrowserRequest(value)
            IN  /\ browserTasks' = Append(browserTasks,
                       [req |-> req, pc |-> "start", count |-> 0, i |-> 0, tag |-> EmptyName,
                        nothing |-> FALSE])
                /\ last' = [NoEvent EXCEPT !.attr = "browser", !.decoded = TRUE]
                /\ UNCHANGED <<disk, browserLog>>
                /\ UNCHANGED BrowserFrame

\* "files" giving up without the sentinel when the tag index resolves to no tag
BrowserBeginReturningEarly(t) ==
    /\ ~crashed
    /\ LET task == browserTasks[t]
           req  == task.req
           tagInfo == GetTagInfoByIndex(disk, req.TagIndex)
       IN  /\ task.pc = "start"
           /\ req.Type = "files"
           /\ browserTasks' = [browserTasks EXCEPT ![t] =
                  IF tagInfo.info = Nil
                  THEN [@ EXCEPT !.pc = "done", !.nothing = NothingToEnumerate(disk, req)]
                  ELSE [@ EXCEPT !.pc = "loop", !.count = tagInfo.info.NumOfRecordings,
                                 !.tag = tagInfo.info.Name,
                                 !.nothing = NothingToEnumerate(disk, req)]]
           /\ UNCHANGED <<disk, browserLog>>
           /\ last' = NoEvent
           /\ UNCHANGED BrowserFrame

\* an unknown type answered with a ready-made empty object instead of the error
BrowserBeginAnsweringEmpty(t) ==
    /\ ~crashed
    /\ LET task == browserTasks[t]
           req  == task.req
       IN  /\ task.pc = "start"
           /\ req.Type \notin {"tags", "files"}
           /\ browserLog' = Append(browserLog, [req |-> t, frame |-> Sentinel, index |-> -1])
           /\ browserTasks' = [browserTasks EXCEPT ![t] = [@ EXCEPT !.pc = "eos"]]
           /\ UNCHANGED disk
           /\ last' = NoEvent
           /\ UNCHANGED BrowserFrame

\* the goroutine up to its first write, for "tags": count, _ := GetNumOfTags()
BrowserBeginTags(t) ==
    /\ ~crashed
    /\ LET task == browserTasks[t]
           req  == task.req
           r    == GetNumOfTags(disk)
       IN  /\ task.pc = "start"
           /\ req.Type = "tags"
           /\ disk' = r.disk
           /\ browserTasks' = [browserTasks EXCEPT ![t] =
                  [@ EXCEPT !.pc = "loop", !.count = r.count,
                            !.nothing = NothingToEnumerate(disk, req)]]
           /\ UNCHANGED browserLog
           /\ last' = NoEvent
           /\ UNCHANGED BrowserFrame

\* for "files": tagInfo, _ := GetTagInfoByIndex(req.TagIndex); if tagInfo != nil
BrowserBeginFiles(t) ==
    /\ ~crashed
    /\ LET task == browserTasks[t]
           req  == task.req
           tagInfo == GetTagInfoByIndex(disk, req.TagIndex)
       IN  /\ task.pc = "start"
           /\ req.Type = "files"
           /\ browserTasks' = [browserTasks EXCEPT ![t] =
                  IF tagInfo.info = Nil
                  THEN [@ EXCEPT !.pc = "eos", !.nothing = NothingToEnumerate(disk, req)]
                  ELSE [@ EXCEPT !.pc = "loop", !.count = tagInfo.info.NumOfRecordings,
                                 !.tag = tagInfo.info.Name,
                                 !.nothing = NothingToEnumerate(disk, req)]]
           /\ UNCHANGED <<disk, browserLog>>
           /\ last' = NoEvent
           /\ UNCHANGED BrowserFrame

\* for any other type: the error frame
BrowserBeginUnknown(t) ==
    /\ ~crashed
    /\ LET task == browserTasks[t]
           req  == task.req
       IN  /\ task.pc = "start"
           /\ req.Type \notin {"tags", "files"}
           /\ browserLog' = Append(browserLog, [req |-> t, frame |-> ErrorFrame, index |-> -1])
           /\ browserTasks' = [browserTasks EXCEPT ![t] = [@ EXCEPT !.pc = "eos"]]
           /\ UNCHANGED disk
           /\ last' = NoEvent
           /\ UNCHANGED BrowserFrame

\* the loop walking the indices from the last one down
BrowserItemFromTheEnd(t) ==
    LET task == browserTasks[t]
        at   == task.count - 1 - task.i
        item == IF task.req.Type = "tags"
                THEN GetTagInfoByIndex(disk, at)
                ELSE GetRecordingDetails(disk, task.tag, at)
    IN  /\ ~crashed
        /\ task.pc = "loop"
        /\ task.i < task.count
        /\ browserLog' = Append(browserLog, [req |-> t, frame |-> Marshal(item.info), index |-> at])
        /\ browserTasks' = [browserTasks EXCEPT ![t] = [@ EXCEPT !.i = @ + 1]]
        /\ UNCHANGED disk
        /\ last' = NoEvent
        /\ UNCHANGED BrowserFrame

\* one round of either loop: query index i, marshal, write
BrowserItem(t) ==
    /\ ~crashed
    /\ LET task == browserTasks[t]
           item == IF task.req.Type = "tags"
                   THEN GetTagInfoByIndex(disk, task.i)
                   ELSE GetRecordingDetails(disk, task.tag, task.i)
       IN  /\ task.pc = "loop"
           /\ task.i < task.count
           /\ browserLog' = Append(browserLog, [req |-> t, frame |-> Marshal(item.info), index |-> task.i])
           /\ browserTasks' = [browserTasks EXCEPT ![t] = [@ EXCEPT !.i = @ + 1]]
           /\ UNCHANGED disk
           /\ last' = NoEvent
           /\ UNCHANGED BrowserFrame

\* after the switch: s.browserHandle.Write(eos)
BrowserEos(t) ==
    /\ ~crashed
    /\ LET task == browserTasks[t]
       IN  /\ \/ task.pc = "eos"
              \/ task.pc = "loop" /\ task.i >= task.count
           /\ browserLog' = Append(browserLog, [req |-> t, frame |-> Sentinel, index |-> -1])
           /\ browserTasks' = [browserTasks EXCEPT ![t] = [@ EXCEPT !.pc = "done"]]
           /\ UNCHANGED disk
           /\ last' = NoEvent
           /\ UNCHANGED BrowserFrame

\* a recording, or any other entry of a tag folder, is deleted from outside
RemoveEntry(tag, name) ==
    /\ IsDirAt(disk, tag) /\ tag /= EmptyName
    /\ name \in DOMAIN disk.sub[tag]
    /\ disk' = [disk EXCEPT !.sub[tag] = [n \in DOMAIN @ \ {name} |-> @[n]]]
    /\ last' = NoEvent
    /\ UNCHANGED <<browserTasks, browserLog>>
    /\ UNCHANGED BrowserFrame

\* a tag folder is deleted from outside
RemoveTagFolder(tag) ==
    /\ IsDirAt(disk, tag) /\ tag /= EmptyName
    /\ disk' = [disk EXCEPT !.root = [n \in DOMAIN @ \ {tag} |-> @[n]],
                            !.sub = [n \in DOMAIN @ \ {tag} |-> @[n]]]
    /\ last' = NoEvent
    /\ UNCHANGED <<browserTasks, browserLog>>
    /\ UNCHANGED BrowserFrame

\* the storages the streams start from: tag folders that hold recordings only
BrowserDisks ==
    { d \in WellFormedDisks :
        /\ d.ok /\ d.exists
        /\ \A n \in DOMAIN d.root : d.root[n]
        /\ \A n \in DOMAIN d.sub : \A f \in DOMAIN d.sub[n] : f /= FileAImu /\ ~d.sub[n][f] }

InitBrowser == \E d \in BrowserDisks : InitWith(d)

\* no stream is in progress
StreamsIdle == \A t \in DOMAIN browserTasks : browserTasks[t].pc = "done"

\* a peer that waits for the sentinel before its next request, over a storage
\* that shrinks and fails meanwhile
NextBrowser ==
    \/ \E value \in BrowserPayloads :
          /\ Len(browserTasks) < MaxBrowserReqs
          /\ StreamsIdle
          /\ HandleBrowserRequest(value)
    \/ \E t \in DOMAIN browserTasks : BrowserBeginTags(t)
    \/ \E t \in DOMAIN browserTasks : BrowserBeginFiles(t)
    \/ \E t \in DOMAIN browserTasks : BrowserBeginUnknown(t)
    \/ \E t \in DOMAIN browserTasks : BrowserItem(t)
    \/ \E t \in DOMAIN browserTasks : BrowserEos(t)
    \/ \E tag \in {TagA, TagB}, name \in {FileAMp4, FileBMp4} : RemoveEntry(tag, name)
    \/ \E tag \in {TagA, TagB} : RemoveTagFolder(tag)
    \/ StorageFlip

SpecBrowser == InitBrowser /\ [][NextBrowser]_vars

\* the File Browser writes sent without waiting: one of each request type
StreamPayloads == {NotJSON, [type |-> "tags"], [type |-> "files"], [type |-> "thumbs"]}

\* a peer that sends requests without waiting, over an unchanging storage
NextStreams ==
    \/ \E value \in StreamPayloads :
          /\ Len(browserTasks) < MaxStreams
          /\ HandleBrowserRequest(value)
    \/ \E t \in DOMAIN browserTasks : BrowserBeginTags(t)
    \/ \E t \in DOMAIN browserTasks : BrowserBeginFiles(t)
    \/ \E t \in DOMAIN browserTasks : BrowserBeginUnknown(t)
    \/ \E t \in DOMAIN browserTasks : BrowserItem(t)
    \/ \E t \in DOMAIN browserTasks : BrowserEos(t)

SpecStreams == InitBrowser /\ [][NextStreams]_vars

-----------------------------------------------------------------------------
(* The server as a whole, from construction: writes to the three write     *)
(* characteristics and the goroutines they start.                          *)

\* number of goroutines the writes of one run start (browser and wifi together)
MaxTasks == 2

TasksStarted == Len(browserTasks) + Len(wifiTasks)

\* the steps of the goroutine of the t-th browser request
BrowserStep(t) ==
    /\ t \in DOMAIN browserTasks
    /\ \/ BrowserBeginTags(t)
       \/ BrowserBeginFiles(t)
       \/ BrowserBeginUnknown(t)
       \/ BrowserItem(t)
       \/ BrowserEos(t)

\* the goroutine of the t-th browser request has a step to take
BrowserRunnable(t) ==
    /\ ~crashed
    /\ t \in DOMAIN browserTasks
    /\ browserTasks[t].pc /= "done"

\* the steps of the goroutine of the t-th wifi setup
WifiStep(t) ==
    /\ t \in DOMAIN wifiTasks
    /\ \/ WifiConnect(t)
       \/ WifiNotify(t)

\* the writes this specification sends: on each characteristic a payload that
\* does not decode and well-formed ones that start a goroutine (a wifi setup
\* whose connection will fail, an enumeration of the tags) or change what an
\* enumeration finds (start creates a tag folder, stop a recording)
ServerRecPayloads == {NotJSON, [action |-> "start"], [action |-> "stop"]}

ServerWifiPayloads == {NotJSON, NoFields}

ServerBrowserPayloads == {NotJSON, [type |-> "tags"]}

NextServer ==
    \/ \E value \in ServerRecPayloads : HandleRecorderCommand(0, value, 1)
    \/ \E value \in ServerWifiPayloads :
          /\ Decodes(value) => TasksStarted < MaxTasks
          /\ HandleWifiSetup(value)
    \/ \E value \in ServerBrowserPayloads :
          /\ Decodes(value) => TasksStarted < MaxTasks
          /\ HandleBrowserRequest(value)
    \/ \E t \in 1..MaxTasks : BrowserStep(t)
    \/ \E t \in 1..MaxTasks : WifiStep(t)

SpecServer == Init /\ [][NextServer]_vars

\* the Go scheduler runs every goroutine that can run: a goroutine blocks only
\* in time.Sleep and on the controller's mutex, which every operation releases
\* on return.  For the browser goroutines weak fairness is written out,
\* <>[]ENABLED <<A>>_vars => []<><<A>>_vars, with BrowserRunnable(t), the guard
\* of the steps, for ENABLED <<BrowserStep(t)>>_vars.
FairServer ==
    /\ SpecServer
    /\ \A t \in 1..MaxTasks : WF_vars(WifiStep(t))
    /\ \A t \in 1..MaxTasks : []<>(~BrowserRunnable(t)) \/ []<><<BrowserStep(t)>>_vars

\* the whole server: every write event, every goroutine, the ticker and the
\* storage's environment.  The specifications above are its parts, each over
\* the variables its actions touch.
Next ==
    \/ NextRecorder
    \/ NextWifi
    \/ NextStreams
    \/ \E tag \in {TagA, TagB, DefaultTag} :
          \E name \in {BaseName(Timestamp(k)) \o ExtMp4 : k \in Clock} : RemoveEntry(tag, name)
    \/ \E tag \in {TagA, TagB, DefaultTag} : RemoveTagFolder(tag)

Spec == Init /\ [][Next]_vars

-----------------------------------------------------------------------------
(* Properties of the archive index, checked under SpecIndex *)

\* C8: when GetNumOfTags has returned N without error, GetTagInfoByIndex(i) asked
\* next succeeds for every i < N and fails with the bounds error, returning no
\* entry, for i = N and every larger index.
C8_TagIndexInBoundsIffBelowCount ==
    (query.op = "tag" /\ query.counted) =>
        IF query.idx < query.count
        THEN query.err = "ok" /\ query.info /= Nil
        ELSE query.err = "tag index out of bounds" /\ query.info = Nil

\* C8 witness: two tags were counted and index 2 was refused, index 1 being the
\* last one served
C8_Witness ==
    /\ query.op = "tag" /\ query.counted /\ query.count = 2
    /\ query.idx = 2 /\ query.err = "tag index out of bounds"
    /\ seen.op = "tag" /\ seen.idx = 1 /\ seen.err = "ok"

\* C9: with the storage unchanged, of two tag queries (or two recording queries
\* in the same tag) that returned entries, the one with the smaller index
\* returned the strictly smaller name, and a query repeated with the index of an
\* earlier one returns the entry the earlier one returned.
C9_ListingsOrderedAndStable ==
    /\ (seen.op = "tag" /\ query.op = "tag" /\ query.repeat /\ seen.err = "ok") =>
          /\ (seen.idx = query.idx) => (query.err = "ok" /\ query.info = seen.info)
          /\ (query.err = "ok" /\ seen.idx < query.idx) =>
                 LexLess(seen.info.Name, query.info.Name)
          /\ (query.err = "ok" /\ query.idx < seen.idx) =>
                 LexLess(query.info.Name, seen.info.Name)
    /\ (seen.op = "file" /\ query.op = "file" /\ query.repeat /\ seen.err = "ok"
        /\ seen.tag = query.tag) =>
          /\ (seen.idx = query.idx) => (query.err = "ok" /\ query.info = seen.info)
          /\ (query.err = "ok" /\ seen.idx < query.idx) =>
                 LexLess(seen.info.FileName, query.info.FileName)
          /\ (query.err = "ok" /\ query.idx < seen.idx) =>
                 LexLess(query.info.FileName, seen.info.FileName)

\* C9 witness: recording 1 of tag B was served after recording 0 of tag B, in a
\* root that also holds tag A
C9_Witness ==
    /\ seen.op = "file" /\ query.op = "file" /\ query.repeat
    /\ seen.tag = TagB /\ query.tag = TagB
    /\ seen.err = "ok" /\ query.err = "ok"
    /\ seen.idx = 0 /\ query.idx = 1
    /\ GetTagInfoByIndex(disk, 1).err = "ok"

-----------------------------------------------------------------------------
(* Properties of the recorder, checked under SpecRecorder *)

IsRecEvent(ev, action) == ev.attr = "rec" /\ ev.decoded /\ ev.cmd.Action = action

\* C1: a Start handled while a session is active (a Start has succeeded and no
\* Stop has succeeded since) fails with "already recording" and leaves the
\* recording flag and the stored configuration, its tag included, as they were.
C1_StartWhileActiveRejected ==
    [][ (IsRecEvent(last', "start") /\ session) =>
            /\ last'.err = "already recording"
            /\ recConfig' = recConfig
            /\ isRecording' = isRecording
            /\ session' ]_vars

\* C1 witness: a Start for the default tag was refused during a session tagged A
C1_Witness ==
    /\ IsRecEvent(last, "start") /\ last.err = "already recording"
    /\ StartTag(last.cmd) = DefaultTag
    /\ session /\ recConfig.FilenameTag = TagA

\* C2: a Stop handled while the recorder is Idle (no Start has succeeded since
\* the beginning or since the last successful Stop) fails with "not recording",
\* writes nothing to the storage and leaves the stored configuration unchanged.
C2_StopWhileIdleRejected ==
    [][ (IsRecEvent(last', "stop") /\ ~session) =>
            /\ last'.err = "not recording"
            /\ disk' = disk
            /\ recConfig' = recConfig ]_vars

\* C3: a Stop handled right after a Start that succeeded succeeds; after it
\* GetRecorderInfo returns an empty FilenameTag, the recorder is idle, and a
\* Start (for either tag) is accepted.
C3_StartStopLeavesIdle ==
    (IsRecEvent(last, "stop") /\ last.justStarted) =>
        /\ last.err = "ok"
        /\ ~isRecording
        /\ ~session
        /\ GetRecorderInfo(recConfig).FilenameTag = EmptyName
        /\ \A t \in {DefaultTag, TagA} :
               StartRecorder(isRecording, recConfig, disk, t).err = "ok"

\* C3 witness: Start("A") then Stop has left the recording triple in folder A
C3_Witness ==
    /\ IsRecEvent(last, "stop") /\ last.justStarted /\ last.err = "ok"
    /\ IsDirAt(disk, TagA)
    /\ BaseName(Timestamp(1)) \o ExtMp4 \in DOMAIN disk.sub[TagA]

\* the payload gave a value to fps, bitrate and chunk_secs
CarriesParameters(params) == params.FPS > 0 /\ params.Bitrate > 0 /\ params.ChunkSecs > 0

\* C4: a config command handled right after a Start(t) that succeeded leaves
\* GetRecorderInfo returning FilenameTag = t, with the FPS, bitrate and chunk
\* length of the command (the command carrying all three, with or without a
\* filename_tag).
C4_ConfigKeepsActiveTag ==
    [][ (StartSucceeded(last) /\ IsRecEvent(last', "config")
         /\ CarriesParameters(last'.cmd.Config)) =>
            LET info == GetRecorderInfo(recConfig')
            IN  /\ info.FilenameTag = StartTag(last.cmd)
                /\ info.FPS = last'.cmd.Config.FPS
                /\ info.Bitrate = last'.cmd.Config.Bitrate
                /\ info.ChunkSecs = last'.cmd.Config.ChunkSecs ]_vars

\* C5: in every state the FilenameTag GetRecorderInfo returns is non-empty
\* exactly when a recording session is active, and the is_recording flag last
\* pushed on Recorder Status equals the recording state.
C5_TagNonEmptyIffRecording ==
    /\ (GetRecorderInfo(recConfig).FilenameTag /= EmptyName) <=> isRecording
    /\ recStatus /= NoValue => (recStatus.is_recording <=> isRecording)

\* C11: every Recorder Control write that decodes (at offset 0) makes exactly
\* one push on Recorder Status, carrying the configuration GetRecorderInfo
\* returns after the action, whether the action succeeded, failed or is not a
\* known action; and a write with an unknown action changes neither the
\* recording flag, nor the stored configuration, nor the storage.
C11_OnePushPerDecodedWrite ==
    [][ (last'.attr = "rec" /\ last'.decoded) =>
            /\ last'.pushes = 1
            /\ recStatus' = RecStatusPayload(recConfig')
            /\ (last'.cmd.Action \notin {"start", "stop", "config"}) =>
                   /\ isRecording' = isRecording
                   /\ recConfig' = recConfig
                   /\ disk' = disk
                   /\ session' = session ]_vars

\* C11 witness: an unknown action ("reboot") written during a session tagged A
\* was answered with one push that still reports the recording
C11_Witness ==
    /\ last.attr = "rec" /\ last.decoded /\ last.cmd.Action = "reboot"
    /\ last.pushes = 1
    /\ session /\ recStatus = RecStatusPayload(recConfig)
    /\ recStatus.is_recording /\ recStatus.tag = TagA

-----------------------------------------------------------------------------
(* Properties of the wifi setup, checked under SpecWifi *)

\* C10: a Wifi Setup write whose payload does not decode leaves the SSID and
\* password GetWifiDetails returns as they were, and starts no connection.
C10_MalformedWifiWriteKeepsCredentials ==
    [][ (last'.attr = "wifi" /\ ~last'.decoded) =>
            /\ GetWifiDetails(wifiConfig') = GetWifiDetails(wifiConfig)
            /\ wifiTasks' = wifiTasks ]_vars

\* C10 witness: a malformed write was handled while "home" was stored
C10_Witness ==
    /\ last.attr = "wifi" /\ ~last.decoded
    /\ GetWifiDetails(wifiConfig) = [SSID |-> "home", Password |-> "secret"]

\* C12: when the handler of a Wifi Setup write that decoded has returned,
\* GetWifiDetails returns the credentials of the write while the goroutine it
\* started has yet to call ConnectToWifi; and each such goroutine has made no
\* push on Wifi Status until ConnectToWifi has returned and exactly one once it
\* has ended, whether ConnectToWifi succeeded or failed.
C12_CredentialsStoredThenOnePush ==
    /\ (last.attr = "wifi" /\ last.decoded) =>
          /\ GetWifiDetails(wifiConfig) = last.creds
          /\ wifiTasks /= <<>>
          /\ wifiTasks[Len(wifiTasks)].pc = "connect"
    /\ \A t \in DOMAIN wifiTasks :
          /\ wifiTasks[t].pc \in {"connect", "notify"} => wifiTasks[t].pushes = 0
          /\ wifiTasks[t].pc = "done" => wifiTasks[t].pushes = 1

\* C12 witness: of two connection attempts that have ended with one push each,
\* one failed for want of an SSID and one succeeded
C12_Witness ==
    \E t, u \in DOMAIN wifiTasks :
        /\ wifiTasks[t].pc = "done" /\ wifiTasks[t].pushes = 1
        /\ wifiTasks[t].err = "no wifi credentials configured"
        /\ wifiTasks[u].pc = "done" /\ wifiTasks[u].pushes = 1
        /\ wifiTasks[u].err = "ok"

-----------------------------------------------------------------------------
(* Properties of the browser stream, checked under SpecBrowser *)

\* C6: a "tags" or "files" request writes no sentinel before it ends and ends
\* with exactly one, its last frame; and when the storage it met held nothing
\* to enumerate (no tag, no tag at TagIndex, no recording in the tag, or no
\* readable root) the sentinel is its only frame.
C6_EnumerationEndsWithOneSentinel ==
    \A t \in DOMAIN browserTasks :
        LET task   == browserTasks[t]
            frames == FramesOf(t)
        IN  task.req.Type \in {"tags", "files"} =>
              /\ task.pc /= "done" => \A k \in 1..Len(frames) : frames[k] /= Sentinel
              /\ task.pc = "done" =>
                    /\ Len(frames) >= 1
                    /\ frames[Len(frames)] = Sentinel
                    /\ \A k \in 1..(Len(frames) - 1) : frames[k] /= Sentinel
              /\ (task.pc = "done" /\ task.nothing) => frames = <<Sentinel>>

\* C6 witness: a "files" request for tag index 1 met a root with fewer than two
\* tags and has ended with the sentinel alone
C6_Witness ==
    \E t \in DOMAIN browserTasks :
        /\ browserTasks[t].req.Type = "files" /\ browserTasks[t].req.TagIndex = 1
        /\ browserTasks[t].pc = "done" /\ browserTasks[t].nothing
        /\ browserTasks[t].tag = EmptyName
        /\ FramesOf(t) = <<Sentinel>>

\* C7: a request of any other type (an absent type included) writes the error
\* frame, then the sentinel, and nothing else.
C7_UnknownTypeErrorThenSentinel ==
    \A t \in DOMAIN browserTasks :
        LET task == browserTasks[t]
        IN  task.req.Type \notin {"tags", "files"} =>
              FramesOf(t) = CASE task.pc = "start" -> <<>>
                              [] task.pc = "eos"   -> <<ErrorFrame>>
                              [] OTHER             -> <<ErrorFrame, Sentinel>>

\* C7 witness: a request without a type has ended
C7_Witness ==
    \E t \in DOMAIN browserTasks :
        /\ browserTasks[t].req.Type = ""
        /\ browserTasks[t].pc = "done"
        /\ Len(FramesOf(t)) = 2

\* C13: an indexed query that fails during an enumeration (the directory
\* shrank, or stopped answering, after the count was taken) puts no frame on
\* the channel: no frame is the "null" a nil entry marshals to, and a request
\* that has ended has the sentinel as its last frame.
C13_FailedIndexWritesNoFrame ==
    /\ \A k \in DOMAIN browserLog : browserLog[k].frame /= Marshal(Nil)
    /\ \A t \in DOMAIN browserTasks :
          browserTasks[t].pc = "done" =>
              FramesOf(t) /= <<>> /\ FramesOf(t)[Len(FramesOf(t))] = Sentinel

\* C14: whatever a Controller operation returns, the process goes on running
\* (and so handles the next write): no state is reached in which it has ended
\* in a panic.
C14_NoControllerFailureIsFatal == ~crashed

\* C15: a Start that returns an error, whatever the reason, leaves the recording
\* flag and the FilenameTag as they were.
C15_FailedStartChangesNothing ==
    [][ (IsRecEvent(last', "start") /\ last'.err /= "ok") =>
            /\ isRecording' = isRecording
            /\ GetRecorderInfo(recConfig').FilenameTag = GetRecorderInfo(recConfig).FilenameTag
      ]_vars

\* C16: a Stop that succeeds during a session puts the recording in the folder
\* of the tag given to the Start that opened the session, whatever config
\* commands came in between: that folder holds a video file afterwards, which
\* the NumOfRecordings of its tag counts, and neither the root nor any other
\* folder has changed.
C16_StopWritesUnderSessionTag ==
    [][ (IsRecEvent(last', "stop") /\ last'.err = "ok" /\ session) =>
            /\ IsDirAt(disk', sessionTag)
            /\ disk'.root = disk.root
            /\ \A n \in DOMAIN disk'.sub : n /= sessionTag => disk'.sub[n] = disk.sub[n]
            /\ \E f \in DOMAIN disk'.sub[sessionTag] : HasSuffix(f, ExtMp4)
            /\ \E i \in 0..MaxIndex :
                   LET r == GetTagInfoByIndex(disk', i)
                   IN  /\ r.err = "ok"
                       /\ r.info.Name = sessionTag
                       /\ r.info.NumOfRecordings >= 1 ]_vars

-----------------------------------------------------------------------------
(* Properties of concurrent browser streams, checked under SpecStreams *)

\* the log entries request t has written, in order
EntriesOf(t) ==
    LET Mine(e) == e.req = t
    IN  SelectSeq(browserLog, Mine)

\* the entry index k of request t's enumeration, read off the storage
ItemAt(t, k) ==
    IF browserTasks[t].req.Type = "tags"
    THEN GetTagInfoByIndex(disk, k).info
    ELSE GetRecordingDetails(disk, browserTasks[t].tag, k).info

\* C17: whatever other requests are streaming, the frames of a "tags" or "files"
\* request are, in the order written, the items of index 0, 1, 2, ... (one
\* frame each, none skipped or repeated), and after the item of index count-1
\* the sentinel, which ends the request.
C17_FramesInIndexOrder ==
    \A t \in DOMAIN browserTasks :
        LET task == browserTasks[t]
            mine == EntriesOf(t)
        IN  task.req.Type \in {"tags", "files"} =>
              /\ Len(mine) = task.i + (IF task.pc = "done" THEN 1 ELSE 0)
              /\ \A k \in 1..task.i :
                     /\ mine[k].index = k - 1
                     /\ mine[k].frame = Marshal(ItemAt(t, k - 1))
              /\ task.pc = "done" =>
                     /\ task.i = task.count
                     /\ mine[Len(mine)].frame = Sentinel

\* C17 witness: two "tags" requests over two tag folders have both ended, three
\* frames each, the second having written before the first had finished
C17_Witness ==
    /\ Len(browserTasks) >= 2
    /\ \A t \in {1, 2} :
          /\ browserTasks[t].req.Type = "tags" /\ browserTasks[t].pc = "done"
          /\ browserTasks[t].count = 2
          /\ Len(EntriesOf(t)) = 3
    /\ \E k \in DOMAIN browserLog :
          /\ browserLog[k].req = 2
          /\ \E j \in DOMAIN browserLog : j > k /\ browserLog[j].req = 1

\* C18: a File Browser write that decodes starts a goroutine of its own whether
\* or not earlier requests are still streaming: it is not dropped, the streams
\* in progress go on as they are, and nothing is written for it yet.  (That
\* the streams then interleave is shown by the state C18_Witness describes.)
C18_RequestsNotSerialized ==
    [][ (last'.attr = "browser" /\ last'.decoded) =>
            /\ Len(browserTasks') = Len(browserTasks) + 1
            /\ browserTasks'[Len(browserTasks')].pc = "start"
            /\ \A t \in DOMAIN browserTasks : browserTasks'[t] = browserTasks[t]
            /\ browserLog' = browserLog ]_vars

\* C18 witness: the frames of two requests interleave: the second request,
\* written while the first was streaming, has put its sentinel on the channel
\* before the first wrote its last item frame
C18_Witness ==
    \E k, j \in DOMAIN browserLog :
        /\ k < j
        /\ browserLog[k].req = 2 /\ browserLog[k].frame = Sentinel
        /\ browserLog[j].req = 1
        /\ browserLog[j].index = browserTasks[1].count - 1
        /\ browserLog[1].req = 1

-----------------------------------------------------------------------------
(* Properties of the server as a whole, checked under SpecServer and, for  *)
(* progress, under FairServer                                              *)

\* the t-th browser request has written its sentinel and ended
SentinelWritten(t) ==
    /\ t \in DOMAIN browserTasks
    /\ browserTasks[t].pc = "done"
    /\ EntriesOf(t) /= <<>>
    /\ EntriesOf(t)[Len(EntriesOf(t))].frame = Sentinel

\* the goroutine of the t-th wifi setup has made its push and ended
StatusPushed(t) ==
    /\ t \in DOMAIN wifiTasks
    /\ wifiTasks[t].pc = "done"
    /\ wifiTasks[t].pushes = 1

\* C19: every goroutine a write has started runs to its end, whatever writes
\* arrive meanwhile: each browser request eventually has written its sentinel,
\* and each wifi setup eventually has made its push on Wifi Status.
C19_TasksRunToCompletion ==
    /\ \A t \in 1..MaxTasks : (t \in DOMAIN browserTasks) ~> SentinelWritten(t)
    /\ \A t \in 1..MaxTasks : (t \in DOMAIN wifiTasks) ~> StatusPushed(t)

\* C19 witness: a browser request and a wifi setup, started while a recording
\* was going on, have both ended
C19_Witness ==
    /\ browserTasks /= <<>> /\ browserTasks[1].pc = "done"
    /\ browserTasks[1].req.Type = "tags" /\ browserTasks[1].count >= 1
    /\ wifiTasks /= <<>> /\ wifiTasks[1].pc = "done" /\ wifiTasks[1].pushes = 1
    /\ isRecording

\* C20: a write whose payload does not decode, on Recorder Control, Wifi Setup
\* or File Browser, makes no push on Recorder Status or Wifi Status, starts no
\* goroutine, puts no frame on the browser channel and leaves the recorder's
\* and the wifi's state, and the storage, as they were.
C20_MalformedWriteNoResponse ==
    [][ (last'.attr \in {"rec", "wifi", "browser"} /\ ~last'.decoded) =>
            /\ recStatus' = recStatus
            /\ wifiStatus' = wifiStatus
            /\ wifiTasks' = wifiTasks
            /\ browserTasks' = browserTasks
            /\ browserLog' = browserLog
            /\ isRecording' = isRecording
            /\ recConfig' = recConfig
            /\ wifiConfig' = wifiConfig
            /\ disk' = disk ]_vars

\* C20 witness: a malformed File Browser write was handled during a recording,
\* with a wifi connection attempt pending
C20_Witness ==
    /\ last.attr = "browser" /\ ~last.decoded
    /\ isRecording /\ session
    /\ wifiTasks /= <<>> /\ wifiTasks[1].pc = "connect"
    /\ browserLog = <<>>

-----------------------------------------------------------------------------
(* Further properties of the recorder, checked under SpecRecorder *)

\* C21: in every state in which a session is active and the storage is healthy
\* (it answers, and the folder of the session's tag is there), a Stop succeeds
\* and leaves the recorder idle.
C21_StopSucceedsDuringSession ==
    (session /\ disk.ok /\ IsDirAt(disk, sessionTag)) =>
        LET r == StopRecorder(isRecording, recConfig, disk, Timestamp(1))
        IN  /\ r.err = "ok"
            /\ ~r.isRecording

-----------------------------------------------------------------------------
(* Further properties of the archive index, checked under SpecIndex.  The  *)
(* storage is the one the first query saw: only CountTags on a missing     *)
(* root writes to it, and then no tag query has succeeded before.          *)

\* C22: when TagAt has reported k recordings for a tag, RecordingAt on that tag's
\* name over the same storage succeeds exactly for the indices below k, and a
\* successful answer carries a record (never nil), so the k frames of a "files"
\* stream over that tag are all items.
C22_CountAgreesWithEnumeration ==
    (/\ seen.op = "tag"
     /\ seen.err = "ok"
     /\ query.op = "file"
     /\ query.tag = seen.info.Name)
        => /\ (query.idx < seen.info.NumOfRecordings) <=> (query.err = "ok")
           /\ (query.err = "ok") <=> (query.info /= Nil)

\* a tag holding one recording beside other entries: index 0 would be served,
\* and index 1 has just been refused
C22_Witness ==
    /\ seen.op = "tag"
    /\ seen.err = "ok"
    /\ seen.info.NumOfRecordings = 1
    /\ Cardinality(DOMAIN disk.sub[seen.info.Name]) > 1
    /\ query.op = "file"
    /\ query.tag = seen.info.Name
    /\ query.idx = 1
    /\ query.err /= "ok"
    /\ GetRecordingDetails(disk, seen.info.Name, 0).err = "ok"

-----------------------------------------------------------------------------
(* Further properties of the wifi setup, checked under SpecWifi.  A task   *)
(* keeps what its own ConnectToWifi read and returned in ssid and err.     *)

\* C23: the push that ends a connect goroutine reports that goroutine's own
\* attempt: the ssid its ConnectToWifi call used, and connected exactly when
\* that call returned no error, whatever writes and ticker rounds came between.
C23_PushReportsOwnAttempt ==
    [][ \A t \in DOMAIN wifiTasks :
            (wifiTasks[t].pc = "notify" /\ wifiTasks'[t].pc = "done")
                => wifiStatus' = [ssid      |-> wifiTasks[t].ssid,
                                  connected |-> wifiTasks[t].err = "ok"] ]_vars

====
